---- MODULE Spec2Model ----
(***************************************************************************)
(* Patient Management API (src/4_Post_Put_Delete/main.py).                 *)
(*                                                                         *)
(* The persisted Collection is the JSON file patients.json: a mapping from *)
(* patient id to a JSON object.  Every handler is a sequence of load_data  *)
(* and save_data calls with local computation in between; FastAPI runs     *)
(* `def` handlers on a thread pool, so the calls of different requests     *)
(* interleave at the load_data / save_data boundaries.  One action of the  *)
(* model is one such segment of a handler.                                 *)
(*                                                                         *)
(* Numbers.  height is counted in quarter metres (8 is 2.0 m), weight in   *)
(* half kilograms (148 is 74.0 kg) and bmi in hundredths (1850 is 18.5).   *)
(* Quarter metres and half kilograms are exact binary floats, so that      *)
(* weight / height ** 2 is a tie of round(_, 2) only when the quotient is  *)
(* itself an exact float, and Python rounds an exact tie to the even       *)
(* neighbour.                                                              *)
(***************************************************************************)
EXTENDS Integers, FiniteSets, Sequences, TLC

\* Number of requests served in one behaviour.
MaxCalls == 3
\* Largest number of records in the Collection given to the sort on its own.
MaxLen == 3
\* Largest height (quarter metres) and weight (half kilograms) given to the
\* derivation on its own.
MaxHeight == 8
MaxWeight == 244

\* Patient.age: gt=0, lt=120; PatientUpdate.age: gt=0 only.
AgeMin == 0
AgeMax == 120
\* Patient.verdict thresholds, in hundredths: 18.5 and 30.
UnderweightBelow == 1850
NormalBelow == 3000

\* The request threads of the server's pool.
Procs == {"t1", "t2"}
Ids == {"P001", "P002"}
Genders == {"male", "female", "others"}

VARIABLES
    file,        \* patients.json: id -> stored object
    pc,          \* per thread: where its handler stands
    req,         \* per thread: the request being served (or the last one)
    data,        \* per thread: the handler's local `data` dict
    patient_obj, \* per thread: update_patient's rebuilt Patient
    resp,        \* per thread: the response of its last finished request
    wrote,       \* per thread: the current request has called save_data
    ncalls,      \* requests started so far
    okCreates,   \* ids whose create returned 201 and whose delete has not returned 200 since
    lastMut,     \* the last request that called save_data
    dh, dw, dout, \* the derivation on its own: inputs and result
    sdata, sout   \* the sort on its own: data.values() in the dict's order, and the response

vars == <<file, pc, req, data, patient_obj, resp, wrote, ncalls, okCreates, lastMut, dh, dw, dout, sdata, sout>>
svcVars == <<file, pc, req, data, patient_obj, resp, wrote, ncalls, okCreates, lastMut>>
drvVars == <<dh, dw, dout, sdata, sout>>

----------------------------------------------------------------------------
\* JSON values.  A JSON object is a function from its keys to optional values:
\* None is JSON null / Python None.
None == [some |-> FALSE]
Some(x) == [some |-> TRUE, v |-> x]
Empty == [k \in {} |-> None]
Wrap(d) == [k \in DOMAIN d |-> Some(d[k])]

\* n / d rounded to the nearest integer, ties to even: Python's round().
RoundHalfEven(n, d) ==
    LET q == n \div d
        r == n % d
    IN  IF 2 * r < d THEN q
        ELSE IF 2 * r > d THEN q + 1
        ELSE IF q % 2 = 0 THEN q ELSE q + 1

\* Faulty variant of Bmi: the quotient cut off, not rounded.
BmiFloor(h, w) == (800 * w) \div (h * h)

\* Patient.bmi: round(weight / height ** 2, 2), in hundredths.
\* (w/2) / (h/4)^2 * 100 = 800 w / h^2.
Bmi(h, w) == RoundHalfEven(800 * w, h * h)

\* Faulty variant of Verdict: the second threshold is missing.
VerdictNoObese(b) ==
    IF b < UnderweightBelow THEN "Underweight" ELSE "Normal"

\* Faulty variant of Verdict: <= where the code has <.
VerdictLe(b) ==
    IF b <= UnderweightBelow THEN "Underweight"
    ELSE IF b <= NormalBelow THEN "Normal"
    ELSE "Obese"

\* Patient.verdict, from the bmi in hundredths.
Verdict(b) ==
    IF b < UnderweightBelow THEN "Underweight"
    ELSE IF b < NormalBelow THEN "Normal"
    ELSE "Obese"

----------------------------------------------------------------------------
\* Dict helpers: data[k] = v and del data[k].
Put(d, k, v) == [x \in (DOMAIN d) \cup {k} |-> IF x = k THEN v ELSE d[x]]
\* Faulty variant of Del: the dict is cleared.
DelAll(d, k) == [x \in {} |-> d[x]]
Del(d, k) == [x \in (DOMAIN d) \ {k} |-> d[x]]

PatientFields == {"id", "name", "city", "age", "gender", "height", "weight"}
UpdateFields == {"name", "city", "age", "gender", "height", "weight"}
ComputedFields == {"bmi", "verdict"}

\* Faulty variant of PatientFieldOk: age without lt=120.
PatientFieldOkNoUpper(k, x) ==
    CASE k = "age" -> x > AgeMin
      [] k = "gender" -> x \in Genders
      [] k = "height" -> x > 0
      [] k = "weight" -> x > 0
      [] OTHER -> TRUE

\* The constraints of one field of class Patient on a present, non-null value.
PatientFieldOk(k, x) ==
    CASE k = "age" -> x > AgeMin /\ x < AgeMax
      [] k = "gender" -> x \in Genders
      [] k = "height" -> x > 0
      [] k = "weight" -> x > 0
      [] OTHER -> TRUE

\* The constraints of one field of class PatientUpdate: age has gt=0 and no lt.
UpdateFieldOk(k, x) ==
    CASE k = "age" -> x > AgeMin
      [] k = "gender" -> x \in Genders
      [] k = "height" -> x > 0
      [] k = "weight" -> x > 0
      [] OTHER -> TRUE

\* Patient(**d) validates: every field is required (Field(...)) and not None;
\* keys that are no field of the model (a stored bmi, verdict) are ignored.
PatientValid(d) ==
    /\ PatientFields \subseteq DOMAIN d
    /\ \A k \in PatientFields : d[k].some /\ PatientFieldOk(k, d[k].v)

\* PatientUpdate(**d) validates: every field is Optional with default None.
UpdateValid(d) ==
    \A k \in UpdateFields \cap DOMAIN d : d[k].some => UpdateFieldOk(k, d[k].v)

\* The validated Patient object built from a JSON object.
PatientOf(d) == [k \in PatientFields |-> d[k].v]

\* Faulty variant of ModelDump: the id is not excluded.
ModelDumpWithId(pt) ==
    [k \in PatientFields \cup ComputedFields |->
        CASE k = "bmi" -> Bmi(pt.height, pt.weight)
          [] k = "verdict" -> Verdict(Bmi(pt.height, pt.weight))
          [] OTHER -> pt[k]]

\* patient.model_dump(exclude=['id']): the fields and the computed fields,
\* without id.
ModelDump(pt) ==
    [k \in (PatientFields \ {"id"}) \cup ComputedFields |->
        CASE k = "bmi" -> Bmi(pt.height, pt.weight)
          [] k = "verdict" -> Verdict(Bmi(pt.height, pt.weight))
          [] OTHER -> pt[k]]

\* patient_update.model_dump(exclude_unset=True): the keys the request set.
DumpSet(patch) == [k \in UpdateFields \cap DOMAIN patch |-> patch[k]]

\* Faulty variant of Merge: a height of the patch is not applied.
MergeSkipsHeight(existing, updated) ==
    [k \in (DOMAIN existing) \cup (DOMAIN updated) |->
        IF k \in DOMAIN updated /\ (k # "height" \/ k \notin DOMAIN existing)
        THEN updated[k] ELSE existing[k]]

\* for key, value in updated_fields.items(): existing_patient_info[key] = value
Merge(existing, updated) ==
    [k \in (DOMAIN existing) \cup (DOMAIN updated) |->
        IF k \in DOMAIN updated THEN updated[k] ELSE existing[k]]

\* load_data(): json.load of the file; what json.dump wrote comes back equal.
load_data == file

\* Responses.
Response(s, d, b) == [status |-> s, detail |-> d, body |-> b]
NoResponse == Response(0, "", Empty)
Created == Response(201, "Patient created successfully", Empty)
Updated == Response(200, "Patient updated successfully", Empty)
Deleted == Response(200, "Patient deleted successfully", Empty)
Conflict == Response(400, "Patient already exists", Empty)
NotFound == Response(404, "Patient not found", Empty)
Unprocessable == Response(422, "Unprocessable Entity", Empty)
ServerError == Response(500, "Internal Server Error", Empty)

----------------------------------------------------------------------------
\* The requests the clients send.
Ann(i) == [id |-> i, name |-> "Ann", city |-> "Pune", age |-> 30,
           gender |-> "female", height |-> 8, weight |-> 148]
Bob(i) == [id |-> i, name |-> "Bob", city |-> "Delhi", age |-> 119,
           gender |-> "male", height |-> 6, weight |-> 139]

\* A hand-written entry of patients.json: the six fields, no computed ones.
Seeded == [name |-> "Eve", city |-> "Agra", age |-> 1, gender |-> "others",
           height |-> 6, weight |-> 90]

CreateBodies ==
    {Wrap(Ann(i)) : i \in Ids} \cup {Wrap(Bob(i)) : i \in Ids}
    \cup { [Wrap(Ann("P001")) EXCEPT !.age = Some(AgeMax)],
           [k \in PatientFields \ {"weight"} |-> Wrap(Bob("P001"))[k]] }

Patches ==
    { Empty,
      [name |-> Some("Cy"), age |-> Some(45)],
      [city |-> Some("Goa"), gender |-> Some("others"), height |-> Some(6)],
      [weight |-> Some(149)],
      [age |-> Some(AgeMax + 30)],
      [age |-> Some(AgeMin)],
      [city |-> None] }

NoRequest == [op |-> "none", id |-> "", body |-> Empty]

Idle(p) == pc[p] = "idle"

\* What one finished request leaves behind in its thread.
Return(p, r) ==
    /\ pc' = [pc EXCEPT ![p] = "done"]
    /\ resp' = [resp EXCEPT ![p] = r]
    /\ data' = [data EXCEPT ![p] = Empty]
    /\ patient_obj' = [patient_obj EXCEPT ![p] = Empty]

Begin(p, r) ==
    /\ Idle(p)
    /\ ncalls < MaxCalls
    /\ ncalls' = ncalls + 1
    /\ req' = [req EXCEPT ![p] = r]

\* The response is sent and the thread goes back to the pool.
Release(p) ==
    /\ pc[p] = "done"
    /\ pc' = [pc EXCEPT ![p] = "idle"]
    /\ req' = [req EXCEPT ![p] = NoRequest]
    /\ resp' = [resp EXCEPT ![p] = NoResponse]
    /\ wrote' = [wrote EXCEPT ![p] = FALSE]
    /\ UNCHANGED <<file, data, patient_obj, ncalls, okCreates, lastMut, drvVars>>

\* save_data(data): the whole file is replaced by the handler's dict.  The
\* write is taken as one step that succeeds.
save_data(p) ==
    /\ file' = data[p]
    /\ wrote' = [wrote EXCEPT ![p] = TRUE]

\* GET /patient/{patient_id}: view_patient.
ViewPatient(p, id) ==
    /\ Begin(p, [op |-> "get", id |-> id, body |-> Empty])
    /\ LET d == load_data
       IN  IF id \notin DOMAIN d
           THEN Return(p, NotFound)
           ELSE Return(p, Response(200, "", d[id]))
    /\ UNCHANGED <<file, wrote, okCreates, lastMut, drvVars>>

\* Faulty variant of CreatePatient: no test for an existing id.
CreatePatientNoCheck(p, body) ==
    /\ Begin(p, [op |-> "create", id |-> IF "id" \in DOMAIN body /\ body["id"].some
                                        THEN body["id"].v ELSE "", body |-> body])
    /\ IF ~PatientValid(body)
       THEN Return(p, Unprocessable)
       ELSE LET patient == PatientOf(body)
                d == load_data
            IN  /\ data' = [data EXCEPT ![p] = Put(d, patient.id, ModelDump(patient))]
                /\ pc' = [pc EXCEPT ![p] = "create_save"]
                /\ UNCHANGED <<resp, patient_obj>>
    /\ UNCHANGED <<file, wrote, okCreates, lastMut, drvVars>>

\* POST /create: request validation, then create_patient up to save_data.
CreatePatient(p, body) ==
    /\ Begin(p, [op |-> "create", id |-> IF "id" \in DOMAIN body /\ body["id"].some
                                        THEN body["id"].v ELSE "", body |-> body])
    /\ IF ~PatientValid(body)
       THEN Return(p, Unprocessable)
       ELSE LET patient == PatientOf(body)
                d == load_data
            IN  IF patient.id \in DOMAIN d
                THEN Return(p, Conflict)
                ELSE /\ data' = [data EXCEPT ![p] = Put(d, patient.id, ModelDump(patient))]
                     /\ pc' = [pc EXCEPT ![p] = "create_save"]
                     /\ UNCHANGED <<resp, patient_obj>>
    /\ UNCHANGED <<file, wrote, okCreates, lastMut, drvVars>>

\* create_patient: save_data(data) and the 201 response.
CreateSave(p) ==
    /\ pc[p] = "create_save"
    /\ save_data(p)
    /\ Return(p, Created)
    /\ okCreates' = okCreates \cup {req[p].id}
    /\ lastMut' = [op |-> "create", id |-> req[p].id, arg |-> PatientOf(req[p].body)]
    /\ UNCHANGED <<req, ncalls, drvVars>>

\* Faulty variant of UpdatePatient: the merged fields are written before the
\* Patient is rebuilt from them.
UpdatePatientSaveFirst(p, id, patch) ==
    /\ Begin(p, [op |-> "update", id |-> id, body |-> patch])
    /\ IF ~UpdateValid(patch)
       THEN Return(p, Unprocessable) /\ UNCHANGED <<file, wrote>>
       ELSE LET d == load_data
            IN  IF id \notin DOMAIN d
                THEN Return(p, NotFound) /\ UNCHANGED <<file, wrote>>
                ELSE LET existing_patient_info ==
                             Put(Merge(Wrap(d[id]), DumpSet(patch)), "id", Some(id))
                         raw == [k \in DOMAIN d[id] |->
                                   IF existing_patient_info[k].some
                                   THEN existing_patient_info[k].v ELSE ""]
                     IN  /\ file' = Put(d, id, raw)
                         /\ wrote' = [wrote EXCEPT ![p] = TRUE]
                         /\ IF ~PatientValid(existing_patient_info)
                            THEN Return(p, ServerError)
                            ELSE /\ patient_obj' = [patient_obj EXCEPT
                                                      ![p] = PatientOf(existing_patient_info)]
                                 /\ pc' = [pc EXCEPT ![p] = "update_load"]
                                 /\ UNCHANGED <<resp, data>>
    /\ UNCHANGED <<okCreates, lastMut, drvVars>>

\* Faulty variant of UpdatePatient: no NotFound for a missing id; the patch is
\* merged into an empty record.
UpdatePatientNoCheck(p, id, patch) ==
    /\ Begin(p, [op |-> "update", id |-> id, body |-> patch])
    /\ IF ~UpdateValid(patch)
       THEN Return(p, Unprocessable)
       ELSE LET d == load_data
                existing_patient_info ==
                    Put(Merge(IF id \in DOMAIN d THEN Wrap(d[id]) ELSE Empty,
                              DumpSet(patch)), "id", Some(id))
            IN  IF ~PatientValid(existing_patient_info)
                THEN Return(p, ServerError)
                ELSE /\ patient_obj' = [patient_obj EXCEPT
                                          ![p] = PatientOf(existing_patient_info)]
                     /\ pc' = [pc EXCEPT ![p] = "update_load"]
                     /\ UNCHANGED <<resp, data>>
    /\ UNCHANGED <<file, wrote, okCreates, lastMut, drvVars>>

\* PUT /edit/{patient_id}: request validation, then update_patient up to the
\* rebuilt Patient.  view_patient does the first load_data; a ValidationError
\* of Patient(**existing_patient_info) is not handled and ends the request
\* with 500.
UpdatePatient(p, id, patch) ==
    /\ Begin(p, [op |-> "update", id |-> id, body |-> patch])
    /\ IF ~UpdateValid(patch)
       THEN Return(p, Unprocessable)
       ELSE LET d == load_data
            IN  IF id \notin DOMAIN d
                THEN Return(p, NotFound)
                ELSE LET existing_patient_info ==
                             Put(Merge(Wrap(d[id]), DumpSet(patch)), "id", Some(id))
                     IN  IF ~PatientValid(existing_patient_info)
                         THEN Return(p, ServerError)
                         ELSE /\ patient_obj' = [patient_obj EXCEPT
                                                   ![p] = PatientOf(existing_patient_info)]
                              /\ pc' = [pc EXCEPT ![p] = "update_load"]
                              /\ UNCHANGED <<resp, data>>
    /\ UNCHANGED <<file, wrote, okCreates, lastMut, drvVars>>

\* Faulty variant of UpdateLoad: the record is stored under the id the patch
\* carries, when it carries one.
UpdateLoadPatchId(p) ==
    /\ pc[p] = "update_load"
    /\ LET body == req[p].body
           key == IF "id" \in DOMAIN body /\ body["id"].some
                  THEN body["id"].v ELSE req[p].id
       IN  data' = [data EXCEPT ![p] = Put(load_data, key, ModelDump(patient_obj[p]))]
    /\ pc' = [pc EXCEPT ![p] = "update_save"]
    /\ UNCHANGED <<file, req, patient_obj, resp, wrote, ncalls, okCreates, lastMut, drvVars>>

\* Faulty variant of UpdateLoad: the stored bmi and verdict are kept, not the
\* recomputed ones.
UpdateLoadStale(p) ==
    /\ pc[p] = "update_load"
    /\ LET d == load_data
           id == req[p].id
           fresh == ModelDump(patient_obj[p])
           kept == [k \in DOMAIN fresh |->
                      IF k \in ComputedFields /\ id \in DOMAIN d /\ k \in DOMAIN d[id]
                      THEN d[id][k] ELSE fresh[k]]
       IN  data' = [data EXCEPT ![p] = Put(d, id, kept)]
    /\ pc' = [pc EXCEPT ![p] = "update_save"]
    /\ UNCHANGED <<file, req, patient_obj, resp, wrote, ncalls, okCreates, lastMut, drvVars>>

\* update_patient: data = load_data(); data[patient_id] = patient_obj.model_dump(...)
UpdateLoad(p) ==
    /\ pc[p] = "update_load"
    /\ data' = [data EXCEPT ![p] = Put(load_data, req[p].id, ModelDump(patient_obj[p]))]
    /\ pc' = [pc EXCEPT ![p] = "update_save"]
    /\ UNCHANGED <<file, req, patient_obj, resp, wrote, ncalls, okCreates, lastMut, drvVars>>

\* update_patient: save_data(data) and the 200 response.
UpdateSave(p) ==
    /\ pc[p] = "update_save"
    /\ save_data(p)
    /\ Return(p, Updated)
    /\ lastMut' = [op |-> "update", id |-> req[p].id, arg |-> Empty]
    /\ UNCHANGED <<req, ncalls, okCreates, drvVars>>

\* Faulty variant of DeletePatient: no test for a missing id.
DeletePatientNoCheck(p, id) ==
    /\ Begin(p, [op |-> "delete", id |-> id, body |-> Empty])
    /\ data' = [data EXCEPT ![p] = Del(load_data, id)]
    /\ pc' = [pc EXCEPT ![p] = "delete_save"]
    /\ UNCHANGED <<resp, patient_obj>>
    /\ UNCHANGED <<file, wrote, okCreates, lastMut, drvVars>>

\* DELETE /delete/{patient_id}: delete_patient up to save_data.
DeletePatient(p, id) ==
    /\ Begin(p, [op |-> "delete", id |-> id, body |-> Empty])
    /\ LET d == load_data
       IN  IF id \notin DOMAIN d
           THEN Return(p, NotFound)
           ELSE /\ data' = [data EXCEPT ![p] = Del(d, id)]
                /\ pc' = [pc EXCEPT ![p] = "delete_save"]
                /\ UNCHANGED <<resp, patient_obj>>
    /\ UNCHANGED <<file, wrote, okCreates, lastMut, drvVars>>

\* delete_patient: save_data(data) and the 200 response.
DeleteSave(p) ==
    /\ pc[p] = "delete_save"
    /\ save_data(p)
    /\ Return(p, Deleted)
    /\ okCreates' = okCreates \ {req[p].id}
    /\ lastMut' = [op |-> "delete", id |-> req[p].id, arg |-> Empty]
    /\ UNCHANGED <<req, ncalls, drvVars>>

----------------------------------------------------------------------------
\* patients.json as the server finds it: empty, or one hand-written entry.
InitFiles == {Empty, [k \in {"P001"} |-> Seeded]}

SvcInit ==
    /\ file \in InitFiles
    /\ pc = [p \in Procs |-> "idle"]
    /\ req = [p \in Procs |-> NoRequest]
    /\ data = [p \in Procs |-> Empty]
    /\ patient_obj = [p \in Procs |-> Empty]
    /\ resp = [p \in Procs |-> NoResponse]
    /\ wrote = [p \in Procs |-> FALSE]
    /\ ncalls = 0
    /\ okCreates = {}
    /\ lastMut = [op |-> "none", id |-> "", arg |-> Empty]

Init ==
    /\ SvcInit
    /\ dh = 0 /\ dw = 0 /\ dout = Empty
    /\ sdata = <<>> /\ sout = Empty

\* Requests are served concurrently.
Next ==
    \/ \E p \in Procs, id \in Ids : ViewPatient(p, id)
    \/ \E p \in Procs, body \in CreateBodies : CreatePatient(p, body)
    \/ \E p \in Procs : CreateSave(p)
    \/ \E p \in Procs, id \in Ids, patch \in Patches : UpdatePatient(p, id, patch)
    \/ \E p \in Procs : UpdateLoad(p)
    \/ \E p \in Procs : UpdateSave(p)
    \/ \E p \in Procs, id \in Ids : DeletePatient(p, id)
    \/ \E p \in Procs : DeleteSave(p)
    \/ \E p \in Procs : Release(p)

Spec == Init /\ [][Next]_vars

\* No request is in flight.
Quiet == \A q \in Procs : Idle(q)

\* Further requests of the one-at-a-time clients: names of length 0 and 51, and
\* a patch that carries an id, which is no field of PatientUpdate.
SeqBodies ==
    CreateBodies
    \cup { [Wrap(Ann("P002")) EXCEPT !.name = Some("")],
           [Wrap(Bob("P002")) EXCEPT !.name =
               Some("MMMMMMMMMMMMMMMMMMMMMMMMMMMMMMMMMMMMMMMMMMMMMMMMMMM")] }

SeqPatches ==
    Patches \cup { [name |-> Some("")],
                   [id |-> Some("P002"), name |-> Some("Zed")] }

\* Requests are served one after the other: a request starts when none is in
\* flight.
SeqNext ==
    \/ \E p \in Procs, id \in Ids : Quiet /\ ViewPatient(p, id)
    \/ \E p \in Procs, body \in SeqBodies : Quiet /\ CreatePatient(p, body)
    \/ \E p \in Procs : CreateSave(p)
    \/ \E p \in Procs, id \in Ids, patch \in SeqPatches : Quiet /\ UpdatePatient(p, id, patch)
    \/ \E p \in Procs : UpdateLoad(p)
    \/ \E p \in Procs : UpdateSave(p)
    \/ \E p \in Procs, id \in Ids : Quiet /\ DeletePatient(p, id)
    \/ \E p \in Procs : DeleteSave(p)
    \/ \E p \in Procs : Release(p)

SeqSpec == Init /\ [][SeqNext]_vars

\* The derivation on its own: a Patient is built from a valid body with the
\* height and weight drawn in Init, and dumped.
DeriveInit ==
    /\ SvcInit
    /\ dh \in 1..MaxHeight
    /\ dw \in 1..MaxWeight
    /\ dout = Empty
    /\ sdata = <<>> /\ sout = Empty

DeriveStep(base) ==
    /\ dout = Empty
    /\ LET body == [Wrap(base) EXCEPT !.height = Some(dh), !.weight = Some(dw)]
       IN  /\ PatientValid(body)
           /\ dout' = ModelDump(PatientOf(body))
    /\ UNCHANGED <<dh, dw, sdata, sout, svcVars>>

DeriveNext == \E base \in {Ann("P001"), Bob("P002")} : DeriveStep(base)

DeriveSpec == DeriveInit /\ [][DeriveNext]_vars

----------------------------------------------------------------------------
\* GET /sort on its own.

\* key=lambda x: x.get(sort_by, 0)
SortKey(x, sort_by) == IF sort_by \in DOMAIN x THEN x[sort_by] ELSE 0

Reverse(s) == [i \in 1..Len(s) |-> s[Len(s) + 1 - i]]

\* x put into the ascending sequence t behind every element whose key is not
\* larger: the step of a stable sort for an element that came last.
InsertStable(t, x, sort_by) ==
    LET n == Cardinality({i \in 1..Len(t) : SortKey(t[i], sort_by) <= SortKey(x, sort_by)})
    IN  SubSeq(t, 1, n) \o <<x>> \o SubSeq(t, n + 1, Len(t))

RECURSIVE StableAsc(_, _)
\* sorted(values, key=...): ascending and stable.
StableAsc(s, sort_by) ==
    IF s = <<>> THEN <<>>
    ELSE InsertStable(StableAsc(SubSeq(s, 1, Len(s) - 1), sort_by), s[Len(s)], sort_by)

\* Faulty variant of Sorted: descending as the ascending result read backwards.
SortedReversedAfter(s, sort_by, reverse_order) ==
    IF reverse_order THEN Reverse(StableAsc(s, sort_by)) ELSE StableAsc(s, sort_by)

\* sorted(values, key=..., reverse=reverse_order): with reverse the list is
\* reversed, sorted and reversed again, so that equal keys keep their order.
Sorted(s, sort_by, reverse_order) ==
    IF reverse_order THEN Reverse(StableAsc(Reverse(s), sort_by))
    ELSE StableAsc(s, sort_by)

SortFields == {"height", "weight", "bmi"}
SortOrders == {"asc", "desc"}

\* Stored objects: hand-written ones (Seeded has no bmi) and dumped ones.
Stored(n, h, w, b) ==
    [name |-> n, city |-> "Pune", age |-> 30, gender |-> "male",
     height |-> h, weight |-> w, bmi |-> b, verdict |-> Verdict(b)]

SortPool ==
    { Stored("Ria", 7, 135, 2210), Stored("Sam", 6, 135, 3050),
      Stored("Tom", 7, 90, 1800), Stored("Uma", 6, 139, 2210), Seeded }

SortInputs ==
    {s \in UNION {[1..n -> SortPool] : n \in 0..MaxLen} :
        \A i, j \in 1..Len(s) : i # j => s[i] # s[j]}

SortResponse(s, by, order, b) == [status |-> s, by |-> by, order |-> order, body |-> b]

\* sort_patients
SortPatients(sort_by, sort_order) ==
    /\ sout = Empty
    /\ IF sort_by \notin SortFields \/ sort_order \notin SortOrders
       THEN sout' = SortResponse(400, sort_by, sort_order, <<>>)
       ELSE sout' = SortResponse(200, sort_by, sort_order,
                                 Sorted(sdata, sort_by, sort_order = "desc"))
    /\ UNCHANGED <<sdata, dh, dw, dout, svcVars>>

SortInit ==
    /\ SvcInit
    /\ dh = 0 /\ dw = 0 /\ dout = Empty
    /\ sdata \in SortInputs
    /\ sout = Empty

SortNext ==
    \E sort_by \in SortFields \cup {"color"}, sort_order \in SortOrders \cup {"up"} :
        SortPatients(sort_by, sort_order)

SortSpec == SortInit /\ [][SortNext]_vars

----------------------------------------------------------------------------
\* Properties.

\* Thread p starts serving a request of kind op in this step.
Began(p, op) == pc[p] = "idle" /\ pc'[p] # "idle" /\ req'[p].op = op

\* Thread p's request ends in this step.
Ended(p) == pc[p] # "done" /\ pc'[p] = "done"

Success == {200, 201}

\* bmi b (hundredths) is weight / height^2 to the nearest hundredth.
IsBmi(b, h, w) ==
    /\ 2 * (b * h * h - 800 * w) <= h * h
    /\ 2 * (800 * w - b * h * h) <= h * h

\* The verdict the thresholds give a bmi in hundredths.
VerdictOf(b) ==
    CASE b < 1850 -> "Underweight"
      [] b >= 1850 /\ b < 3000 -> "Normal"
      [] b >= 3000 -> "Obese"

\* C1: a create whose (valid) record carries an id that is a key of the
\* Collection it loads ends at once with Conflict (400), and the file after it
\* is the file before it: nothing is added, overwritten or saved.
C1_DuplicateCreateConflicts ==
    [][\A p \in Procs :
         (Began(p, "create") /\ PatientValid(req'[p].body) /\ req'[p].id \in DOMAIN file)
         => (pc'[p] = "done" /\ resp'[p] = Conflict /\ file' = file /\ ~wrote'[p])]_vars

C1_Witness ==
    \E p \in Procs :
        /\ pc[p] = "done" /\ req[p].op = "create" /\ resp[p] = Conflict
        /\ req[p].id \in DOMAIN file /\ ~wrote[p]

\* C2: no successful mutation is lost under any interleaving: every id whose
\* create returned success, and whose delete has not returned success since,
\* is a key of the persisted Collection.
C2_NoLostCreate == okCreates \subseteq DOMAIN file

\* The effect of thread p's mutating request is in the file after the step.
EffectPersisted(p) ==
    LET id == req[p].id
        body == req[p].body
    IN  CASE req[p].op = "create" ->
               /\ id \in DOMAIN file'
               /\ \A k \in UpdateFields : file'[id][k] = body[k].v
          [] req[p].op = "update" ->
               /\ id \in DOMAIN file'
               /\ \A k \in DOMAIN body : file'[id][k] = body[k].v
          [] req[p].op = "delete" -> id \notin DOMAIN file'
          [] OTHER -> FALSE

\* C3: no partial success.  A step that changes the file is the last step of
\* a mutating request, which returns success with its effect in the file; a
\* request that returns an error has not written, in that step or before it.
C3_NoPartialSuccess ==
    [][/\ file' # file =>
            \E p \in Procs : Ended(p) /\ resp'[p].status \in Success /\ EffectPersisted(p)
       /\ \A p \in Procs :
            (Ended(p) /\ resp'[p].status \notin Success) => (file' = file /\ ~wrote'[p])
       /\ \A p \in Procs :
            (Ended(p) /\ req'[p].op \in {"create", "update", "delete"}
                      /\ resp'[p].status \in Success)
            => (wrote'[p] /\ EffectPersisted(p))]_vars

\* An update whose merged record failed validation has ended, nothing written.
C3_Witness ==
    \E p \in Procs :
        /\ pc[p] = "done" /\ req[p].op = "update" /\ resp[p] = ServerError
        /\ ~wrote[p] /\ req[p].id \in DOMAIN file /\ lastMut.op = "create"

\* C4: served alone, a successful update stores a record in which every field
\* of the patch has the patch's value, every other field keeps the value it
\* had, and bmi and verdict are those of the merged height and weight.
C4_UpdateMerges ==
    [][\A p \in Procs :
         (pc[p] = "update_save" /\ Ended(p) /\ resp'[p] = Updated)
         => LET id == req[p].id
                patch == req[p].body
            IN  /\ id \in DOMAIN file /\ id \in DOMAIN file'
                /\ \A k \in UpdateFields :
                     file'[id][k] = IF k \in DOMAIN patch THEN patch[k].v ELSE file[id][k]
                /\ ComputedFields \subseteq DOMAIN file'[id]
                /\ IsBmi(file'[id].bmi, file'[id].height, file'[id].weight)
                /\ file'[id].verdict = VerdictOf(file'[id].bmi)]_vars

\* A patch with only weight was applied to a stored record: the other fields
\* are the old ones and the bmi is the one of the new weight.
C4_Witness ==
    \E p \in Procs :
        /\ pc[p] = "done" /\ req[p].op = "update" /\ resp[p] = Updated
        /\ DOMAIN req[p].body = {"weight"}
        /\ req[p].id \in DOMAIN file
        /\ file[req[p].id].weight = 149
        /\ file[req[p].id].name = "Ann" /\ file[req[p].id].height = 8
        /\ file[req[p].id].bmi = 1862

\* C5: a get of the id of the create that was the last mutation returns the
\* created record: the six fields of the input, and bmi and verdict derived
\* from its height and weight.
C5_CreateThenGet ==
    [][\A p \in Procs :
         (Began(p, "get") /\ lastMut.op = "create" /\ lastMut.id = req'[p].id)
         => LET r == resp'[p].body
                a == lastMut.arg
            IN  /\ pc'[p] = "done" /\ resp'[p].status = 200
                /\ UpdateFields \cup ComputedFields \subseteq DOMAIN r
                /\ \A k \in UpdateFields : r[k] = a[k]
                /\ IsBmi(r.bmi, a.height, a.weight)
                /\ r.verdict = VerdictOf(r.bmi)]_vars

C5_Witness ==
    \E p \in Procs :
        /\ pc[p] = "done" /\ req[p].op = "get" /\ resp[p].status = 200
        /\ lastMut.op = "create" /\ lastMut.id = req[p].id
        /\ resp[p].body = file[req[p].id]
        /\ resp[p].body.name = "Bob" /\ resp[p].body.bmi = 3089
        /\ resp[p].body.verdict = "Obese"

\* C6: every record of the persisted Collection has the six fields, with
\* 0 < age < 120, a gender of the enum, height > 0 and weight > 0.
C6_RecordsValid ==
    \A id \in DOMAIN file :
        LET r == file[id]
        IN  /\ UpdateFields \subseteq DOMAIN r
            /\ r.age > 0 /\ r.age < 120
            /\ r.gender \in {"male", "female", "others"}
            /\ r.height > 0 /\ r.weight > 0

\* Two records, the last one written by an update.
C6_Witness ==
    /\ lastMut.op = "update"
    /\ Cardinality(DOMAIN file) = 2
    /\ lastMut.id \in DOMAIN file /\ file[lastMut.id].age = 45

\* C7 as claimed: the object a create or an update has just written has
\* exactly the six keys name, city, age, gender, height, weight.
C7_SixKeysOnly ==
    lastMut.op \in {"create", "update"}
    => (lastMut.id \in DOMAIN file /\ DOMAIN file[lastMut.id] = UpdateFields)

\* C7 as amended: the object a create or an update has just written has
\* exactly the keys name, city, age, gender, height, weight, bmi, verdict;
\* the id is not among them.
C7_StoredKeys ==
    lastMut.op \in {"create", "update"}
    => /\ lastMut.id \in DOMAIN file
       /\ DOMAIN file[lastMut.id] =
            {"name", "city", "age", "gender", "height", "weight", "bmi", "verdict"}

C7_Witness ==
    /\ lastMut.op = "update" /\ lastMut.id = "P001"
    /\ "P001" \in DOMAIN file
    /\ "bmi" \in DOMAIN file["P001"] /\ "id" \notin DOMAIN file["P001"]
    /\ file["P001"].name = "Eve"

\* C8 as claimed: a bmi of exactly 18.5 and a bmi of exactly 30 are Normal.
C8_BothBoundariesNormal ==
    (dout # Empty /\ dout.bmi \in {1850, 3000}) => dout.verdict = "Normal"

\* C8 as amended: a bmi of exactly 18.5 is Normal and a bmi of exactly 30 is
\* Obese.
C8_Boundaries ==
    /\ (dout # Empty /\ dout.bmi = 1850) => dout.verdict = "Normal"
    /\ (dout # Empty /\ dout.bmi = 3000) => dout.verdict = "Obese"

C8_Witness == dout # Empty /\ dout.bmi = 3000 /\ dh = 8 /\ dw = 240

\* C9: the verdict is Underweight below 18.5, Normal from 18.5 up to but not
\* including 30 and Obese from 30 on, of the bmi that is weight / height^2 to
\* two decimals, whatever the other fields of the record.
C9_VerdictThresholds ==
    dout # Empty =>
        /\ IsBmi(dout.bmi, dh, dw)
        /\ dout.bmi = Bmi(dh, dw)
        /\ dout.verdict \in {"Underweight", "Normal", "Obese"}
        /\ dout.verdict = "Underweight" <=> dout.bmi < 1850
        /\ dout.verdict = "Normal" <=> (dout.bmi >= 1850 /\ dout.bmi < 3000)
        /\ dout.verdict = "Obese" <=> dout.bmi >= 3000

\* 119.5 kg at 2.0 m: 29.875, a tie that rounds to the even 29.88, Normal.
C9_Witness ==
    dout # Empty /\ dh = 8 /\ dw = 239 /\ dout.bmi = 2988 /\ dout.verdict = "Normal"

\* C10: a delete of an id that is no key of the Collection it loads ends at
\* once with NotFound (404), and the file after it is the file before it.
C10_DeleteMissingNotFound ==
    [][\A p \in Procs :
         (Began(p, "delete") /\ req'[p].id \notin DOMAIN file)
         => (pc'[p] = "done" /\ resp'[p] = NotFound /\ file' = file /\ ~wrote'[p])]_vars

C10_Witness ==
    \E p \in Procs :
        /\ pc[p] = "done" /\ req[p].op = "delete" /\ resp[p] = NotFound
        /\ req[p].id \notin DOMAIN file /\ ~wrote[p] /\ file # Empty


\* C11: an update of an id that is no key of the Collection it loads ends at
\* once with NotFound (404) for every patch that is a PatientUpdate; no record
\* is inserted under the id and the file after it is the file before it.
C11_UpdateMissingNotFound ==
    [][\A p \in Procs :
         (Began(p, "update") /\ req'[p].id \notin DOMAIN file)
         => /\ pc'[p] = "done" /\ file' = file /\ ~wrote'[p]
            /\ req'[p].id \notin DOMAIN file'
            /\ UpdateValid(req'[p].body) => resp'[p] = NotFound]_vars

C11_Witness ==
    \E p \in Procs :
        /\ pc[p] = "done" /\ req[p].op = "update" /\ resp[p] = NotFound
        /\ DOMAIN req[p].body = {"weight"}
        /\ req[p].id \notin DOMAIN file /\ ~wrote[p] /\ file # Empty


\* The place of a stored object in the dict's iteration order.
PlaceOf(x) == CHOOSE i \in 1..Len(sdata) : sdata[i] = x

\* The key of a record as the claim counts it: the field, or 0 without it.
KeyOf(x, f) == IF f \in DOMAIN x THEN x[f] ELSE 0

\* C12: for a field of height, weight, bmi and an order of asc, desc the
\* response holds every record of the Collection once, in non-decreasing (asc)
\* or non-increasing (desc) order of the field, a record without the field
\* counting as 0, and records with equal keys in the Collection's own order.
C12_SortOrdered ==
    (sout # Empty /\ sout.by \in {"height", "weight", "bmi"} /\ sout.order \in {"asc", "desc"})
    => LET b == sout.body
           f == sout.by
       IN  /\ sout.status = 200
           /\ Len(b) = Len(sdata)
           /\ {b[i] : i \in 1..Len(b)} = {sdata[i] : i \in 1..Len(sdata)}
           /\ \A i, j \in 1..Len(b) :
                i < j =>
                  /\ sout.order = "asc" => KeyOf(b[i], f) <= KeyOf(b[j], f)
                  /\ sout.order = "desc" => KeyOf(b[i], f) >= KeyOf(b[j], f)
                  /\ KeyOf(b[i], f) = KeyOf(b[j], f) => PlaceOf(b[i]) < PlaceOf(b[j])

\* bmi desc on [22.1, 30.5, 18.0] gave [30.5, 22.1, 18.0].
C12_Witness ==
    /\ sout # Empty /\ sout.status = 200 /\ sout.by = "bmi" /\ sout.order = "desc"
    /\ Len(sdata) = 3
    /\ [i \in 1..3 |-> KeyOf(sdata[i], "bmi")] = <<2210, 3050, 1800>>
    /\ [i \in 1..3 |-> KeyOf(sout.body[i], "bmi")] = <<3050, 2210, 1800>>


\* The record an update of id with patch hands to Patient(...).
MergedFor(id, patch) == Put(Merge(Wrap(file[id]), DumpSet(patch)), "id", Some(id))

\* C13: an update whose merged record breaks a field rule ends as a create of
\* that record ends, with the validation error 422, and never with another or
\* a generic fault.
C13_UpdateFailsLikeCreate ==
    [][\A p \in Procs :
         (/\ Began(p, "update") /\ req'[p].id \in DOMAIN file
          /\ ~PatientValid(MergedFor(req'[p].id, req'[p].body)))
         => (pc'[p] = "done" /\ resp'[p] = Unprocessable)]_vars


\* C14: no record of the Collection has an empty name or a name of more than
\* 50 characters: create and update refuse such a name and store nothing.
C14_NamesBounded ==
    \A id \in DOMAIN file : Len(file[id].name) >= 1 /\ Len(file[id].name) <= 50


\* C15: served alone, a successful update leaves the keys of the Collection
\* as they were and the record under every other key as it was; the updated
\* record stays under its id, whatever the patch carries.
C15_UpdateFrame ==
    [][\A p \in Procs :
         (pc[p] = "update_save" /\ Ended(p) /\ resp'[p] = Updated)
         => LET id == req[p].id
            IN  /\ DOMAIN file' = DOMAIN file
                /\ id \in DOMAIN file'
                /\ "id" \notin DOMAIN file'[id]
                /\ \A k \in DOMAIN file : k # id => file'[k] = file[k]]_vars

\* A patch that names another patient's id was applied to P001: P001 has the
\* new name, and P002 is the record that was created.
C15_Witness ==
    \E p \in Procs :
        /\ pc[p] = "done" /\ req[p].op = "update" /\ resp[p] = Updated
        /\ req[p].id = "P001" /\ "id" \in DOMAIN req[p].body
        /\ DOMAIN file = {"P001", "P002"}
        /\ file["P001"].name = "Zed" /\ file["P002"].name = "Ann"


\* C16: served alone, a delete of an id that is a key of the Collection returns
\* success and removes that key and no other: every other key keeps its record,
\* and a get of the id that follows ends with NotFound.
C16_DeleteRemovesOne ==
    [][\A p \in Procs :
         /\ (Began(p, "delete") /\ req'[p].id \in DOMAIN file) => pc'[p] = "delete_save"
         /\ (pc[p] = "delete_save" /\ Ended(p))
            => /\ resp'[p] = Deleted
               /\ req[p].id \in DOMAIN file
               /\ DOMAIN file' = DOMAIN file \ {req[p].id}
               /\ \A k \in DOMAIN file' : file'[k] = file[k]
         /\ (Began(p, "get") /\ lastMut.op = "delete" /\ lastMut.id = req'[p].id)
            => resp'[p] = NotFound]_vars

\* P001 was deleted from a Collection of two: P002 is left as it was created.
C16_Witness ==
    \E p \in Procs :
        /\ pc[p] = "done" /\ req[p].op = "delete" /\ resp[p] = Deleted
        /\ req[p].id = "P001"
        /\ DOMAIN file = {"P002"} /\ file["P002"].name = "Bob"


\* C17: an update never brings a deleted record back: when the last write to
\* the file was a successful delete of the id (no create has followed it), the
\* id is no key of the file after the update of that id has completed.
C17_NoResurrection ==
    [][\A p \in Procs :
         (/\ pc[p] = "update_save" /\ Ended(p)
          /\ lastMut.op = "delete" /\ lastMut.id = req[p].id)
         => req[p].id \notin DOMAIN file']_vars


\* C18: derived values never go stale: every record of the file that carries
\* bmi and verdict has the bmi of its own stored height and weight, to two
\* decimals, and the verdict of that bmi.
C18_DerivedFresh ==
    \A id \in DOMAIN file :
        LET r == file[id]
        IN  ComputedFields \subseteq DOMAIN r
            => /\ IsBmi(r.bmi, r.height, r.weight)
               /\ r.verdict = VerdictOf(r.bmi)

\* A created record whose weight an update changed: 74.5 kg at 1.5 m is 33.11.
C18_Witness ==
    /\ lastMut.op = "update"
    /\ \E id \in DOMAIN file :
         /\ ComputedFields \subseteq DOMAIN file[id]
         /\ file[id].name = "Bob" /\ file[id].height = 6 /\ file[id].weight = 149
         /\ file[id].bmi = 3311 /\ file[id].verdict = "Obese"

====
